---- MODULE Spec2Model ----
(***************************************************************************)
(* Model of go-oauth2kit (src/oauth2.go): Manager.NewOAuth2Client and      *)
(* Manager.GetToken, the token file (store / load), the callback server    *)
(* with its handler goroutines, and the OAuth2 provider as environment.    *)
(*                                                                         *)
(* Environment assumptions:                                                *)
(*  - the provider issues access tokens that differ from every earlier one *)
(*    and that are not expired when issued; it rejects an empty code;      *)
(*  - nothing but store() changes the token file during a run; its state   *)
(*    at start is arbitrary (absent, a credential, corrupt, unreadable).   *)
(***************************************************************************)
EXTENDS Naturals, FiniteSets, Sequences, TLC

(* ---------------- bounds ---------------- *)
MaxTime == 2
MaxCalls == 2
MaxRequests == 2
TokLife == 1

Procs == {"g1", "g2"}
Reqs == 1..MaxRequests

(* ---------------- program constants ---------------- *)
defaultLocalAddr == ":15440"
defaultServerPath == "/callback"
DocDefaultTokenFile == "token.json"

(* ---------------- oauth2.Token and its JSON form ---------------- *)
(* access 0 is the empty string, refresh 0 is "no refresh token",          *)
(* expiry 0 is the zero time; mono is the monotonic clock reading that a   *)
(* time.Time taken from time.Now() carries and JSON does not.              *)
ZeroToken == [access |-> 0, ttype |-> "", refresh |-> 0, expiry |-> 0, mono |-> FALSE]

NoJSON == [access_token |-> 0, token_type |-> "", refresh_token |-> 0, expiry |-> 0]

(* variant: the encoding leaves the expiry out *)
EncodeWithoutExpiry(t) ==
    [access_token |-> t.access, token_type |-> t.ttype,
     refresh_token |-> t.refresh, expiry |-> 0]

(* json.NewEncoder(f).Encode(token): the exported fields; the monotonic clock
   reading of the expiry is not written *)
Encode(t) ==
    [access_token |-> t.access, token_type |-> t.ttype,
     refresh_token |-> t.refresh, expiry |-> t.expiry]

Decode(j) ==
    [access |-> j.access_token, ttype |-> j.token_type,
     refresh |-> j.refresh_token, expiry |-> j.expiry, mono |-> FALSE]

(* variant: the validity test forgets the expiry *)
TokenValidIgnoringExpiry(t, n) == t.access # 0

(* oauth2.Token.Valid as used by the reusing token source of ts.Token() *)
TokenValid(t, n) ==
    /\ t.access # 0
    /\ (t.expiry = 0 \/ t.expiry > n)

(* ---------------- the file system ---------------- *)
(* kind: "absent", "data" (one complete JSON value), "empty" (zero bytes), *)
(* "partial" (not a JSON value), "noperm" (exists, cannot be opened),      *)
(* "staterr" (stat fails with an error other than not-exist).              *)
AbsentFile == [kind |-> "absent", json |-> NoJSON]
EmptyFile == [kind |-> "empty", json |-> NoJSON]
PartialFile == [kind |-> "partial", json |-> NoJSON]
DataFile(t) == [kind |-> "data", json |-> Encode(t)]

(* tokenFile := cfg.TokenFile *)
TokenFileOf(c) == c.TokenFile

(* the file a path names: the empty path names no file (ENOENT) *)
FileAt(path, f) == IF path = "" THEN AbsentFile ELSE f

(* variant: an existing file is taken for a missing one *)
StatResultNeverFound(path, f) ==
    IF FileAt(path, f).kind = "staterr" THEN "error" ELSE "notexist"

(* variant: every stat error is taken for not-exist *)
StatResultAnyErrorIsMissing(path, f) ==
    IF FileAt(path, f).kind \in {"staterr", "absent"} THEN "notexist" ELSE "ok"

(* os.Stat and the two tests of its error *)
StatResult(path, f) ==
    CASE FileAt(path, f).kind = "staterr" -> "error"
      [] FileAt(path, f).kind = "absent" -> "notexist"
      [] OTHER -> "ok"

(* os.OpenFile(fileName, O_RDWR|O_CREATE|O_TRUNC, 0600) *)
CanOpenForWrite(path, f) == path # "" /\ f.kind \notin {"noperm", "staterr"}

(* variant: the refresh tokens are compared instead of the access tokens *)
NeedsSaveByRefreshToken(valid, tok) == valid.refresh # tok.refresh

(* the comparison that decides whether the validated token is saved *)
NeedsSave(valid, tok) == valid.access # tok.access

(* variant: the store error after the exchange is only logged *)
StoreFailureIsLogged == FALSE

(* what GetToken does when store fails after the exchange *)
StoreFailureIsFatal == TRUE

(* variant: a failed refresh is tried again *)
PcRetryRefresh == "validate"

(* where NewOAuth2Client goes when ts.Token() returned an error *)
PcAfterRefreshError == "idle"

(* the state argument of AuthCodeURL *)
StateNonce == "state-token"

(* variant: a failed exchange is tried again *)
PcRetryExchange == "exchange"

(* where GetToken goes when the exchange returned an error *)
PcAfterExchangeError == "idle"

VARIABLES
    cfg,          \* Manager.Config: LocalAddr, ServerPath, TokenFile
    active,       \* the goroutines that call NewOAuth2Client
    file,         \* the file token.json
    now,          \* wall clock
    nextTok,      \* the next access token the provider issues
    loggerRepo,   \* Manager.LoggerRepository: "nil" or "standard"
    crashed,      \* the process died of a panic
    mux,          \* http.DefaultServeMux
    srv,          \* the server goroutine
    reqs,         \* handler goroutines of callback requests
    pc, calls, tok, validTok, vtime, authCode, outcome, ctxExpired, result,
    atCall, started, browser, exchanges, redirect,
    storeErr,     \* GetToken: the error of store(tokenFile, token)
    saveErr,      \* NewOAuth2Client: the error of store(m.Config.TokenFile, validToken)
    written,      \* the token whose encoding the file holds since the last store
    refreshes,    \* refresh requests ts.Token() sent in the current call
    reqState      \* the state parameter of each request whose handler holds a result

vars == <<cfg, active, file, now, nextTok, loggerRepo, crashed, mux, srv, reqs,
          pc, calls, tok, validTok, vtime, authCode, outcome, ctxExpired,
          result, atCall, started, browser, exchanges, redirect, storeErr, saveErr,
          written, refreshes, reqState>>

(* ---------------- initial states ---------------- *)
(* LocalAddr and ServerPath are set together or left unset together *)
Configs ==
    {c \in [LocalAddr : {"", ":8080"}, ServerPath : {"", "/cb"}, TokenFile : {"", "token.json"}] :
        (c.LocalAddr = "") = (c.ServerPath = "")}

StoredTokens ==
    {[access |-> 1, ttype |-> "Bearer", refresh |-> r, expiry |-> e, mono |-> FALSE] :
        r \in {0, 1}, e \in {0, 1, 2}}

InitialFiles ==
    {AbsentFile, EmptyFile, PartialFile,
     [kind |-> "noperm", json |-> NoJSON], [kind |-> "staterr", json |-> NoJSON],
     DataFile(ZeroToken)}
    \cup {DataFile(t) : t \in StoredTokens}

NoServer == [state |-> "none", addr |-> ""]
NoHandler == [owner |-> "none", path |-> ""]
NoRedirect == [addr |-> "", path |-> ""]

InitCommon ==
    /\ cfg \in Configs
    /\ file \in InitialFiles
    /\ now = 1
    /\ nextTok = 2
    /\ loggerRepo = "nil"
    /\ crashed = FALSE
    /\ mux = NoHandler
    /\ srv = NoServer
    /\ redirect = NoRedirect
    /\ reqs = [r \in Reqs |-> "none"]
    /\ pc = [p \in Procs |-> "idle"]
    /\ calls = 0
    /\ tok = [p \in Procs |-> ZeroToken]
    /\ validTok = [p \in Procs |-> ZeroToken]
    /\ vtime = [p \in Procs |-> 0]
    /\ authCode = [p \in Procs |-> ""]
    /\ outcome = [p \in Procs |-> "none"]
    /\ ctxExpired = [p \in Procs |-> FALSE]
    /\ result = [p \in Procs |-> "none"]
    /\ atCall = [p \in Procs |-> [f |-> AbsentFile, t |-> 0]]
    /\ started = [p \in Procs |-> 0]
    /\ browser = [p \in Procs |-> "none"]
    /\ exchanges = [p \in Procs |-> 0]
    /\ storeErr = [p \in Procs |-> "none"]
    /\ saveErr = [p \in Procs |-> "none"]
    /\ written = ZeroToken
    /\ refreshes = [p \in Procs |-> 0]
    /\ reqState = [r \in Reqs |-> "none"]

Init == InitCommon /\ active = Procs

InitSeq == InitCommon /\ active = {"g1"}

(* ---------------- helpers of the actions ---------------- *)
Return(p, r) ==
    /\ pc' = [pc EXCEPT ![p] = "idle"]
    /\ result' = [result EXCEPT ![p] = r]

Goto(p, l) ==
    /\ pc' = [pc EXCEPT ![p] = l]
    /\ UNCHANGED result

Env == <<cfg, active, now>>
Flow == <<mux, srv, reqs, redirect, authCode, outcome, ctxExpired, started, browser, exchanges>>
Locals == <<tok, validTok, vtime, storeErr, saveErr>>

(* ---------------- the clock ---------------- *)
Tick ==
    /\ ~crashed
    /\ now < MaxTime
    /\ now' = now + 1
    /\ UNCHANGED <<cfg, active, file, nextTok, loggerRepo, crashed, Flow, Locals,
                   pc, calls, result, atCall>>
    /\ UNCHANGED <<written, refreshes, reqState>>

(* ---------------- NewOAuth2Client / GetToken ---------------- *)
(* a goroutine calls m.NewOAuth2Client(ctx), which calls m.GetToken(ctx) *)
Call(p) ==
    /\ ~crashed
    /\ p \in active
    /\ pc[p] = "idle"
    /\ calls < MaxCalls
    /\ calls' = calls + 1
    /\ atCall' = [atCall EXCEPT ![p] = [f |-> FileAt(TokenFileOf(cfg), file), t |-> now]]
    /\ tok' = [tok EXCEPT ![p] = ZeroToken]
    /\ validTok' = [validTok EXCEPT ![p] = ZeroToken]
    /\ vtime' = [vtime EXCEPT ![p] = 0]
    /\ authCode' = [authCode EXCEPT ![p] = ""]
    /\ outcome' = [outcome EXCEPT ![p] = "none"]
    /\ ctxExpired' = [ctxExpired EXCEPT ![p] = FALSE]
    /\ started' = [started EXCEPT ![p] = 0]
    /\ browser' = [browser EXCEPT ![p] = "none"]
    /\ exchanges' = [exchanges EXCEPT ![p] = 0]
    /\ storeErr' = [storeErr EXCEPT ![p] = "none"]
    /\ saveErr' = [saveErr EXCEPT ![p] = "none"]
    /\ refreshes' = [refreshes EXCEPT ![p] = 0]
    /\ pc' = [pc EXCEPT ![p] = "checkLogger"]
    /\ result' = [result EXCEPT ![p] = "none"]
    /\ UNCHANGED <<Env, file, nextTok, loggerRepo, crashed, mux, srv, reqs, redirect>>
    /\ UNCHANGED <<written, reqState>>

(* if m.LoggerRepository == nil *)
CheckLogger(p) ==
    /\ ~crashed
    /\ pc[p] = "checkLogger"
    /\ Goto(p, IF loggerRepo = "nil" THEN "setLogger" ELSE "stat")
    /\ UNCHANGED <<Env, file, nextTok, loggerRepo, crashed, Flow, Locals, calls, atCall>>
    /\ UNCHANGED <<written, refreshes, reqState>>

(* m.LoggerRepository = &StandardLoggerRepository{} *)
SetLogger(p) ==
    /\ ~crashed
    /\ pc[p] = "setLogger"
    /\ loggerRepo' = "standard"
    /\ Goto(p, "stat")
    /\ UNCHANGED <<Env, file, nextTok, crashed, Flow, Locals, calls, atCall>>
    /\ UNCHANGED <<written, refreshes, reqState>>

(* _, err := os.Stat(tokenFile) and the two tests of err *)
Stat(p) ==
    /\ ~crashed
    /\ pc[p] = "stat"
    /\ CASE StatResult(TokenFileOf(cfg), file) = "error" -> Return(p, "StatError")
         [] StatResult(TokenFileOf(cfg), file) = "notexist" -> Goto(p, "register")
         [] OTHER -> Goto(p, "load")
    /\ UNCHANGED <<Env, file, nextTok, loggerRepo, crashed, Flow, Locals, calls, atCall>>
    /\ UNCHANGED <<written, refreshes, reqState>>

(* token, err := load(tokenFile) *)
Load(p) ==
    /\ ~crashed
    /\ pc[p] = "load"
    /\ IF FileAt(TokenFileOf(cfg), file).kind = "data"
         THEN /\ tok' = [tok EXCEPT ![p] = Decode(FileAt(TokenFileOf(cfg), file).json)]
              /\ Goto(p, "validate")
         ELSE /\ Return(p, "LoadError")
              /\ UNCHANGED tok
    /\ UNCHANGED <<Env, file, nextTok, loggerRepo, crashed, Flow, validTok, vtime,
                   storeErr, saveErr, calls, atCall>>
    /\ UNCHANGED <<written, refreshes, reqState>>

(* ---------------- the provider (golang.org/x/oauth2 calls) ---------------- *)
(* a token the provider issues at time n: a new access token, not expired *)
Issued(n, r) ==
    {[access |-> nextTok, ttype |-> "Bearer", refresh |-> r, expiry |-> n + TokLife,
      mono |-> TRUE]}

(* ---------------- store(fileName, token) ---------------- *)
(* os.OpenFile(fileName, os.O_RDWR|os.O_CREATE|os.O_TRUNC, 0600) succeeded *)
StoreOpened(path) ==
    /\ CanOpenForWrite(path, file)
    /\ file' = EmptyFile
    /\ written' = ZeroToken

(* json.NewEncoder(f).Encode(token) succeeded *)
StoreWritten(t) == file' = DataFile(t) /\ written' = t

(* Encode returned an error: nothing, or only a part, was written *)
StoreWriteFailed == file' \in {file, PartialFile} /\ UNCHANGED written

(* ---------------- NewOAuth2Client after GetToken ---------------- *)
(* return oauth2.NewClient(ctx, ts), nil *)
ReturnClient(p) == Return(p, "client")

(* the steps after ts.Token() returned t *)
Validated(p, t) ==
    /\ validTok' = [validTok EXCEPT ![p] = t]
    /\ vtime' = [vtime EXCEPT ![p] = now]
    /\ IF NeedsSave(t, tok[p])
         THEN Goto(p, "saveOpen")
         ELSE ReturnClient(p)

(* ts := m.TokenSource(ctx, token); validToken, err := ts.Token() *)
Validate(p) ==
    /\ ~crashed
    /\ pc[p] = "validate"
    /\ \/ /\ TokenValid(tok[p], now)
          /\ Validated(p, tok[p])
          /\ UNCHANGED <<nextTok, refreshes>>
       \/ /\ ~TokenValid(tok[p], now)
          /\ tok[p].refresh = 0
          /\ Return(p, "RefreshError")
          /\ UNCHANGED <<validTok, vtime, nextTok, refreshes>>
       \/ /\ ~TokenValid(tok[p], now)
          /\ tok[p].refresh # 0
          /\ refreshes' = [refreshes EXCEPT ![p] = @ + 1]
          /\ \/ /\ pc' = [pc EXCEPT ![p] = PcAfterRefreshError]
                /\ result' = [result EXCEPT ![p] = "RefreshError"]
                /\ UNCHANGED <<validTok, vtime, nextTok>>
             \/ /\ \E t \in Issued(now, tok[p].refresh) : Validated(p, t)
                /\ nextTok' = nextTok + 1
    /\ UNCHANGED <<Env, file, loggerRepo, crashed, Flow, tok, storeErr, saveErr, calls, atCall>>
    /\ UNCHANGED <<written, reqState>>

(* store(m.Config.TokenFile, validToken): the open *)
SaveOpen(p) ==
    /\ ~crashed
    /\ pc[p] = "saveOpen"
    /\ \/ /\ StoreOpened(TokenFileOf(cfg))
          /\ Goto(p, "saveWrite")
          /\ UNCHANGED saveErr
       \/ /\ UNCHANGED <<file, written>>
          /\ saveErr' = [saveErr EXCEPT ![p] = "open"]
          /\ ReturnClient(p)
    /\ UNCHANGED <<Env, nextTok, loggerRepo, crashed, Flow, tok, validTok, vtime, storeErr,
                   calls, atCall>>
    /\ UNCHANGED <<refreshes, reqState>>

(* store(m.Config.TokenFile, validToken): the write; an error is only logged *)
SaveWrite(p) ==
    /\ ~crashed
    /\ pc[p] = "saveWrite"
    /\ \/ StoreWritten(validTok[p]) /\ saveErr' = [saveErr EXCEPT ![p] = "nil"]
       \/ StoreWriteFailed /\ saveErr' = [saveErr EXCEPT ![p] = "write"]
    /\ ReturnClient(p)
    /\ UNCHANGED <<Env, nextTok, loggerRepo, crashed, Flow, tok, validTok, vtime, storeErr,
                   calls, atCall>>
    /\ UNCHANGED <<refreshes, reqState>>

(* ---------------- GetToken: the interactive flow ---------------- *)
LocalAddrOf(c) == IF c.LocalAddr # "" THEN c.LocalAddr ELSE defaultLocalAddr

ServerPathOf(c) == IF c.ServerPath = "" THEN defaultServerPath ELSE c.ServerPath

(* fmt.Sprintf("http://localhost%s/callback", localAddr) *)
buildRedirectURL(c) ==
    [addr |-> IF c.LocalAddr = "" THEN defaultLocalAddr ELSE c.LocalAddr,
     path |-> "/callback"]

(* verifier, authURL, the channels, the http.Server and http.HandleFunc;   *)
(* HandleFunc panics when the pattern is already registered                *)
Register(p) ==
    /\ ~crashed
    /\ pc[p] = "register"
    /\ IF mux.owner # "none" /\ mux.path = ServerPathOf(cfg)
         THEN /\ crashed' = TRUE
              /\ UNCHANGED <<mux, srv, redirect, pc, result>>
         ELSE /\ mux' = [owner |-> p, path |-> ServerPathOf(cfg)]
              /\ srv' = [state |-> "created", addr |-> LocalAddrOf(cfg)]
              /\ redirect' = buildRedirectURL(cfg)
              /\ Goto(p, "startServer")
              /\ UNCHANGED crashed
    /\ UNCHANGED <<Env, file, nextTok, loggerRepo, reqs, authCode, outcome, ctxExpired,
                   started, browser, exchanges, Locals, calls, atCall>>
    /\ UNCHANGED <<written, refreshes, reqState>>

(* go func() { server.ListenAndServe() ... }() *)
StartServer(p) ==
    /\ ~crashed
    /\ pc[p] = "startServer"
    /\ srv' = [srv EXCEPT !.state = "starting"]
    /\ started' = [started EXCEPT ![p] = @ + 1]
    /\ Goto(p, "openBrowser")
    /\ UNCHANGED <<Env, file, nextTok, loggerRepo, crashed, mux, reqs, redirect, authCode,
                   outcome, ctxExpired, browser, exchanges, Locals, calls, atCall>>
    /\ UNCHANGED <<written, refreshes, reqState>>

(* openURL(authURL); on an error the URL is printed instead *)
openURL(p) ==
    /\ ~crashed
    /\ pc[p] = "openBrowser"
    /\ \E b \in {"opened", "failed"} : browser' = [browser EXCEPT ![p] = b]
    /\ Goto(p, "wait")
    /\ UNCHANGED <<Env, file, nextTok, loggerRepo, crashed, mux, srv, reqs, redirect, authCode,
                   outcome, ctxExpired, started, exchanges, Locals, calls, atCall>>
    /\ UNCHANGED <<written, refreshes, reqState>>

(* ---------------- the server goroutine and the handlers ---------------- *)
(* ListenAndServe listens on server.Addr *)
ServerListens ==
    /\ ~crashed
    /\ srv.state = "starting"
    /\ srv' = [srv EXCEPT !.state = "listening"]
    /\ UNCHANGED <<Env, file, nextTok, loggerRepo, crashed, mux, reqs, redirect, authCode,
                   outcome, ctxExpired, started, browser, exchanges, Locals, pc, calls,
                   result, atCall>>
    /\ UNCHANGED <<written, refreshes, reqState>>

(* ListenAndServe returns an error that is not ErrServerClosed: errorChan <- err *)
ServerFails ==
    /\ ~crashed
    /\ srv.state \in {"starting", "listening"}
    /\ srv' = [srv EXCEPT !.state = "sendErr"]
    /\ UNCHANGED <<Env, file, nextTok, loggerRepo, crashed, mux, reqs, redirect, authCode,
                   outcome, ctxExpired, started, browser, exchanges, Locals, pc, calls,
                   result, atCall>>
    /\ UNCHANGED <<written, refreshes, reqState>>

(* the browser follows the redirect URL; the mux serves 404 for a path     *)
(* without handler, else the handler reads the code and sends on a channel; *)
(* requests are numbered in the order of their arrival; the handler reads  *)
(* the code parameter only, whatever the state parameter is; a state that  *)
(* differs from the one of the authorization URL is drawn for the first    *)
(* request only (the handler treats every request alike)                   *)
Request(r, code, st) ==
    /\ ~crashed
    /\ srv.state = "listening"
    /\ redirect.addr = srv.addr
    /\ reqs[r] = "none"
    /\ \A r2 \in Reqs : r2 < r => reqs[r2] # "none"
    /\ code = "" => st = StateNonce
    /\ st # StateNonce => r = 1
    /\ reqState' = [reqState EXCEPT ![r] =
                      IF redirect.path # mux.path THEN "none" ELSE st]
    /\ reqs' = [reqs EXCEPT ![r] =
                  IF redirect.path # mux.path THEN "notfound"
                  ELSE IF code = "" THEN "sendErr" ELSE "sendCode"]
    /\ UNCHANGED <<Env, file, nextTok, loggerRepo, crashed, mux, srv, redirect, authCode,
                   outcome, ctxExpired, started, browser, exchanges, Locals, pc, calls,
                   result, atCall>>
    /\ UNCHANGED <<written, refreshes>>

(* fmt.Fprintf(w, ...); return *)
HandlerResponds(r) ==
    /\ ~crashed
    /\ reqs[r] = "respond"
    /\ reqs' = [reqs EXCEPT ![r] = "done"]
    /\ UNCHANGED <<Env, file, nextTok, loggerRepo, crashed, mux, srv, redirect, authCode,
                   outcome, ctxExpired, started, browser, exchanges, Locals, pc, calls,
                   result, atCall>>
    /\ UNCHANGED <<written, refreshes, reqState>>

(* ---------------- GetToken: the select ---------------- *)
Selected(p, o, code) ==
    /\ outcome' = [outcome EXCEPT ![p] = o]
    /\ authCode' = [authCode EXCEPT ![p] = code]
    /\ Goto(p, "shutdown")

(* case authCode = <-codeChan *)
ReceiveCode(p, r) ==
    /\ ~crashed
    /\ pc[p] = "wait"
    /\ mux.owner = p
    /\ reqs[r] = "sendCode"
    /\ reqs' = [reqs EXCEPT ![r] = "respond"]
    /\ reqState' = [reqState EXCEPT ![r] = "none"]
    /\ Selected(p, "code", "c1")
    /\ UNCHANGED <<Env, file, nextTok, loggerRepo, crashed, mux, srv, redirect, ctxExpired,
                   started, browser, exchanges, Locals, calls, atCall>>
    /\ UNCHANGED <<written, refreshes>>

(* case err := <-errorChan, sent by a handler that found no code *)
ReceiveHandlerError(p, r) ==
    /\ ~crashed
    /\ pc[p] = "wait"
    /\ mux.owner = p
    /\ reqs[r] = "sendErr"
    /\ reqs' = [reqs EXCEPT ![r] = "respond"]
    /\ reqState' = [reqState EXCEPT ![r] = "none"]
    /\ Selected(p, "error", "")
    /\ UNCHANGED <<Env, file, nextTok, loggerRepo, crashed, mux, srv, redirect, ctxExpired,
                   started, browser, exchanges, Locals, calls, atCall>>
    /\ UNCHANGED <<written, refreshes>>

(* case err := <-errorChan, sent by the server goroutine *)
ReceiveServerError(p) ==
    /\ ~crashed
    /\ pc[p] = "wait"
    /\ mux.owner = p
    /\ srv.state = "sendErr"
    /\ srv' = [srv EXCEPT !.state = "exited"]
    /\ Selected(p, "error", "")
    /\ UNCHANGED <<Env, file, nextTok, loggerRepo, crashed, mux, reqs, redirect, ctxExpired,
                   started, browser, exchanges, Locals, calls, atCall>>
    /\ UNCHANGED <<written, refreshes, reqState>>

(* case <-time.After(5 * time.Minute) *)
Timeout(p) ==
    /\ ~crashed
    /\ pc[p] = "wait"
    /\ Selected(p, "timeout", "")
    /\ UNCHANGED <<Env, file, nextTok, loggerRepo, crashed, mux, srv, reqs, redirect,
                   ctxExpired, started, browser, exchanges, Locals, calls, atCall>>
    /\ UNCHANGED <<written, refreshes, reqState>>

(* ctx, cancel := context.WithTimeout(ctx, 5*time.Second); server.Shutdown(ctx): *)
(* the listener is closed; Shutdown waits for the handlers until ctx expires      *)
HandlerBlocked == \E r \in Reqs : reqs[r] \in {"sendCode", "sendErr"}

Shutdown(p) ==
    /\ ~crashed
    /\ pc[p] = "shutdown"
    /\ srv' = [srv EXCEPT !.state = IF @ \in {"starting", "listening"} THEN "closed" ELSE @]
    /\ \E exceeded \in BOOLEAN :
          /\ HandlerBlocked => exceeded
          /\ ctxExpired' = [ctxExpired EXCEPT ![p] = exceeded]
    /\ Goto(p, "exchange")
    /\ UNCHANGED <<Env, file, nextTok, loggerRepo, crashed, mux, reqs, redirect, authCode,
                   outcome, started, browser, exchanges, Locals, calls, atCall>>
    /\ UNCHANGED <<written, refreshes, reqState>>

(* token, err := m.oauth2ConfigOAuth2().Exchange(ctx, authCode, ...) *)
Exchange(p) ==
    /\ ~crashed
    /\ pc[p] = "exchange"
    /\ exchanges' = [exchanges EXCEPT ![p] = @ + 1]
    /\ \/ /\ pc' = [pc EXCEPT ![p] = PcAfterExchangeError]
          /\ result' = [result EXCEPT ![p] = "ExchangeError"]
          /\ UNCHANGED <<tok, nextTok>>
       \/ /\ ~ctxExpired[p]
          /\ authCode[p] # ""
          /\ \E r \in {0, 1} : \E t \in Issued(now, r) : tok' = [tok EXCEPT ![p] = t]
          /\ nextTok' = nextTok + 1
          /\ Goto(p, "storeOpen")
    /\ UNCHANGED <<Env, file, loggerRepo, crashed, mux, srv, reqs, redirect, authCode,
                   outcome, ctxExpired, started, browser, validTok, vtime,
                   storeErr, saveErr, calls, atCall>>
    /\ UNCHANGED <<written, refreshes, reqState>>

(* what GetToken does with the error of store(tokenFile, token) *)
StoreFailed(p, e) ==
    /\ storeErr' = [storeErr EXCEPT ![p] = e]
    /\ IF StoreFailureIsFatal THEN Return(p, "PersistError") ELSE Goto(p, "validate")

(* store(tokenFile, token): the open *)
StoreOpen(p) ==
    /\ ~crashed
    /\ pc[p] = "storeOpen"
    /\ \/ /\ StoreOpened(TokenFileOf(cfg))
          /\ Goto(p, "storeWrite")
          /\ UNCHANGED storeErr
       \/ /\ UNCHANGED <<file, written>>
          /\ StoreFailed(p, "open")
    /\ UNCHANGED <<Env, nextTok, loggerRepo, crashed, Flow, tok, validTok, vtime, saveErr,
                   calls, atCall>>
    /\ UNCHANGED <<refreshes, reqState>>

(* store(tokenFile, token): the write; return token, nil *)
StoreWrite(p) ==
    /\ ~crashed
    /\ pc[p] = "storeWrite"
    /\ \/ /\ StoreWritten(tok[p])
          /\ storeErr' = [storeErr EXCEPT ![p] = "nil"]
          /\ Goto(p, "validate")
       \/ /\ StoreWriteFailed
          /\ StoreFailed(p, "write")
    /\ UNCHANGED <<Env, nextTok, loggerRepo, crashed, Flow, tok, validTok, vtime, saveErr,
                   calls, atCall>>
    /\ UNCHANGED <<refreshes, reqState>>

(* ---------------- specifications ---------------- *)
Next ==
    \/ Tick
    \/ \E p \in Procs :
          \/ Call(p) \/ CheckLogger(p) \/ SetLogger(p) \/ Stat(p) \/ Load(p)
          \/ Validate(p) \/ SaveOpen(p) \/ SaveWrite(p)
          \/ Register(p) \/ StartServer(p) \/ openURL(p)
          \/ Timeout(p) \/ ReceiveServerError(p)
          \/ Shutdown(p) \/ Exchange(p) \/ StoreOpen(p) \/ StoreWrite(p)
          \/ \E r \in Reqs : ReceiveCode(p, r) \/ ReceiveHandlerError(p, r)
    \/ ServerListens
    \/ ServerFails
    \/ \E r \in Reqs : HandlerResponds(r) \/ \E code \in {"", "c1"}, st \in {StateNonce, "forged"} : Request(r, code, st)

Spec == Init /\ [][Next]_vars

SpecSeq == InitSeq /\ [][Next]_vars


(* ======================= properties ======================= *)
FlowPcs == {"register", "startServer", "openBrowser", "wait", "shutdown", "exchange",
            "storeOpen", "storeWrite"}

(* the credential in the token file when the current call of p began *)
StoredAtCall(p) == Decode(atCall[p].f.json)

ValidAtCall(p) ==
    /\ atCall[p].f.kind = "data"
    /\ StoredAtCall(p).access # 0
    /\ (StoredAtCall(p).expiry = 0 \/ StoredAtCall(p).expiry > atCall[p].t)

ExpiredAtCall(p) ==
    /\ atCall[p].f.kind = "data"
    /\ StoredAtCall(p).access # 0
    /\ StoredAtCall(p).expiry # 0
    /\ StoredAtCall(p).expiry <= atCall[p].t

(* C1: whenever NewOAuth2Client has returned a client, on the cache-hit and *)
(* on the cache-miss path, the token of the client's token source had a     *)
(* non-empty access token and was not expired at the time ts.Token()        *)
(* validated it, and a token that was expired then was replaced by a        *)
(* refreshed one; otherwise the call returned an error.                     *)
C1_ClientTokenValidated ==
    \A p \in Procs :
        result[p] = "client" =>
            /\ validTok[p].access # 0
            /\ (validTok[p].expiry = 0 \/ validTok[p].expiry > vtime[p])
            /\ (tok[p].expiry # 0 /\ tok[p].expiry <= vtime[p]
                   => validTok[p].access # tok[p].access)

C1_Witness ==
    \E p \in Procs :
        /\ result[p] = "client"
        /\ tok[p].expiry # 0 /\ tok[p].expiry <= vtime[p]
        /\ validTok[p].access # tok[p].access

(* C2: if the token file held a valid, non-expired credential when the call *)
(* began, that call registers no handler, starts no server, opens no        *)
(* browser and exchanges no code.                                           *)
C2_CacheHitSkipsFlow ==
    \A p \in Procs :
        ValidAtCall(p) =>
            /\ pc[p] \notin FlowPcs
            /\ started[p] = 0
            /\ browser[p] = "none"
            /\ outcome[p] = "none"
            /\ exchanges[p] = 0

C2_Witness ==
    \E p \in Procs : ValidAtCall(p) /\ result[p] = "client" /\ validTok[p] = StoredAtCall(p)

(* C3: when the wait ended by the timeout, the call returns a TimeoutError. *)
C3_TimeoutReturnsTimeoutError ==
    \A p \in Procs :
        (outcome[p] = "timeout" /\ pc[p] = "idle") => result[p] = "TimeoutError"

(* C4: in one flow the select yields one outcome, which then stays, a code  *)
(* is held exactly when the outcome is "code", and the exchange is called   *)
(* at most once, whatever code, handler error, server error and timeout     *)
(* were racing.                                                             *)
C4_FirstResponseWins ==
    [][\A p \in Procs :
          /\ exchanges'[p] <= 1
          /\ (outcome'[p] = "code") = (authCode'[p] # "")
          /\ (outcome[p] # "none" /\ pc'[p] # "checkLogger" => outcome'[p] = outcome[p])
          /\ (pc'[p] \in {"shutdown", "exchange", "storeOpen", "storeWrite"}
                 => outcome'[p] \in {"code", "error", "timeout"})]_vars

C4_Witness ==
    \E p \in Procs :
        /\ pc[p] = "idle"
        /\ outcome[p] = "code"
        /\ exchanges[p] = 1
        /\ \E r \in Reqs : reqs[r] = "sendErr"

(* C5: with one caller at a time: when the token file held a credential     *)
(* whose expiry was in the past when the call began and the call returned a *)
(* client (the provider accepted the refresh token), the client's token is  *)
(* a new access token, the save was attempted, and if the save succeeded    *)
(* the token file holds the new token when the call returns.                *)
C5_RefreshPersisted ==
    \A p \in Procs :
        (ExpiredAtCall(p) /\ pc[p] = "idle" /\ result[p] = "client") =>
            /\ validTok[p].access # StoredAtCall(p).access
            /\ saveErr[p] # "none"
            /\ (saveErr[p] = "nil" => file = DataFile(validTok[p]))

C5_Witness ==
    \E p \in Procs :
        /\ ExpiredAtCall(p) /\ pc[p] = "idle" /\ result[p] = "client"
        /\ saveErr[p] = "nil"
        /\ file = DataFile(validTok[p])

(* C6: with one caller at a time: when ts.Token() refreshed the token and   *)
(* the save of the refreshed token failed, the call still returns a client  *)
(* and the token file still holds the old credential.                       *)
C6_FailedSaveKeepsOldCredential ==
    \A p \in Procs :
        (pc[p] = "idle" /\ saveErr[p] \in {"open", "write"}) =>
            /\ result[p] = "client"
            /\ file = DataFile(tok[p])

(* the token file existed but could not be read or decoded when the call began *)
BadAtCall(p) == atCall[p].f.kind \in {"empty", "partial", "noperm", "staterr"}

(* C7: with one caller at a time: when the token file existed but was       *)
(* unreadable or not a JSON value when the call began, the call returns the *)
(* stat or load error (never the flow of a missing file): it registers no   *)
(* handler, starts no server, opens no browser, exchanges no code, and      *)
(* leaves the file as it was.                                               *)
C7_CorruptFileIsAnError ==
    \A p \in Procs :
        BadAtCall(p) =>
            /\ pc[p] \notin FlowPcs
            /\ started[p] = 0 /\ browser[p] = "none" /\ exchanges[p] = 0
            /\ file = atCall[p].f
            /\ (pc[p] = "idle" => result[p] \in {"StatError", "LoadError"})

C7_Witness ==
    \E p \in Procs :
        /\ atCall[p].f.kind = "partial"
        /\ pc[p] = "idle"
        /\ result[p] = "LoadError"

(* C8: with two goroutines calling on the same Manager no call panics, no   *)
(* two goroutines write Manager.LoggerRepository at the same time, and no   *)
(* goroutine loads the token file while another has truncated and not yet   *)
(* written it.                                                              *)
C8_SafeForConcurrentUse ==
    /\ ~crashed
    /\ \A p, q \in Procs :
          p # q =>
             /\ ~(pc[p] = "setLogger" /\ pc[q] = "setLogger")
             /\ ~(pc[p] = "load" /\ pc[q] \in {"storeWrite", "saveWrite"})

(* the current call of p ran the flow and its exchange returned a token *)
Exchanged(p) == exchanges[p] = 1 /\ tok[p] # ZeroToken

(* C9: with one caller at a time: after a successful exchange GetToken      *)
(* returns its token only when store succeeded, and then the token file     *)
(* holds that token; when store failed the call returns the error, so a     *)
(* client is returned on the cache-miss path only after the write.          *)
C9_FreshTokenStoredBeforeReturn ==
    \A p \in Procs :
        Exchanged(p) =>
            /\ (pc[p] = "validate" => storeErr[p] = "nil" /\ file = DataFile(tok[p]))
            /\ (result[p] = "client" => storeErr[p] = "nil")
            /\ (storeErr[p] \in {"open", "write"}
                   => pc[p] = "idle" /\ result[p] = "PersistError")

C9_Witness ==
    \E p \in Procs :
        /\ Exchanged(p)
        /\ result[p] = "client"
        /\ storeErr[p] = "nil"
        /\ file = DataFile(validTok[p])

(* C10: an unset LocalAddr, ServerPath or TokenFile takes its documented    *)
(* default: the server binds ":15440", the handler is on "/callback", and   *)
(* a Manager with an empty TokenFile uses token.json, so that a call finds  *)
(* a credential stored there and does not start the interactive flow.       *)
C10_DefaultsApplied ==
    /\ srv.state # "none" =>
          /\ srv.addr = (IF cfg.LocalAddr = "" THEN ":15440" ELSE cfg.LocalAddr)
          /\ mux.path = (IF cfg.ServerPath = "" THEN "/callback" ELSE cfg.ServerPath)
    /\ \A p \in Procs :
          (/\ cfg.TokenFile = ""
           /\ FileAt(DocDefaultTokenFile, file).kind = "data"
           /\ FileAt(DocDefaultTokenFile, file).json.access_token # 0)
              => pc[p] \notin FlowPcs

(* the four fields of a Credential agree *)
SameCredential(a, b) ==
    /\ a.access = b.access
    /\ a.ttype = b.ttype
    /\ a.refresh = b.refresh
    /\ a.expiry = b.expiry

(* C11: round trip. Whenever load reads a token file that the last store wrote
   (truncating whatever the file held before), it succeeds and returns a token
   equal to the stored one in access token, token type, refresh token and expiry. *)
C11_StoreThenLoadRoundTrip ==
    [][\A p \in Procs :
          (pc[p] = "load" /\ pc'[p] # "load" /\ written # ZeroToken)
             => (pc'[p] = "validate" /\ SameCredential(tok'[p], written))]_vars

(* a later call has loaded the token that NewOAuth2Client saved over the
   credential the file held before (no interactive flow ever ran) *)
C11_Witness ==
    \E p \in Procs :
        /\ pc[p] = "validate"
        /\ mux.owner = "none"
        /\ written # ZeroToken
        /\ written.expiry # 0
        /\ file = DataFile(written)
        /\ atCall[p].f = file
        /\ SameCredential(tok[p], written)

(* C12: the exchange is called only after an authorization code was         *)
(* received: a flow whose wait ended by a receiver error or by the timeout  *)
(* never reaches the exchange.                                              *)
C12_ExchangeOnlyAfterCode ==
    \A p \in Procs :
        (pc[p] = "exchange" \/ exchanges[p] > 0) => (outcome[p] = "code" /\ authCode[p] # "")

(* C13: with one caller at a time: when a call began with the token file    *)
(* absent or holding a complete JSON value, the file is absent or holds a   *)
(* complete JSON value when the call has returned (never empty or partial), *)
(* and a call whose exchange failed left the file as it was.                *)
C13_NoPartialCredentialPersisted ==
    \A p \in Procs :
        (pc[p] = "idle" /\ atCall[p].t # 0 /\ atCall[p].f.kind \in {"absent", "data"}) =>
            /\ FileAt(TokenFileOf(cfg), file).kind \in {"absent", "data"}
            /\ result[p] = "ExchangeError" => FileAt(TokenFileOf(cfg), file) = atCall[p].f

(* C14: with one caller at a time: a call that found no token file starts    *)
(* exactly one callback server, never dies before starting it, and has shut  *)
(* the server down (the listener is closed) before the exchange and before   *)
(* it returns.                                                               *)
C14_ReceiverLifecycle ==
    \A p \in Procs :
        /\ pc[p] \in {"openBrowser", "wait", "shutdown", "exchange", "storeOpen", "storeWrite"}
              => started[p] = 1
        /\ (pc[p] \in {"exchange", "storeOpen", "storeWrite"} \/ (pc[p] = "idle" /\ started[p] > 0))
              => srv.state \notin {"created", "starting", "listening"}
        /\ started[p] <= 1
        /\ pc[p] \in {"register", "startServer"} => ~crashed

(* C15: with one caller at a time: when the call found a stored credential   *)
(* and ts.Token() failed to refresh it, the call has returned that error     *)
(* after at most one refresh request, without starting a server, opening a   *)
(* browser or exchanging a code, and the token file is as the call found it. *)
C15_RefreshErrorIsTerminal ==
    \A p \in Procs :
        (atCall[p].f.kind = "data" /\ result[p] = "RefreshError") =>
            /\ pc[p] = "idle"
            /\ refreshes[p] <= 1
            /\ started[p] = 0
            /\ browser[p] = "none"
            /\ exchanges[p] = 0
            /\ FileAt(TokenFileOf(cfg), file) = atCall[p].f

(* the provider rejected the refresh token of an expired stored credential *)
C15_Witness ==
    \E p \in Procs :
        /\ ExpiredAtCall(p)
        /\ StoredAtCall(p).refresh # 0
        /\ result[p] = "RefreshError"
        /\ refreshes[p] = 1
        /\ pc[p] = "idle"

(* C16: a callback request is accepted as carrying the authorization code    *)
(* (its handler sends the code to the waiting flow) only if its state        *)
(* parameter equals the state value of the authorization URL.                *)
C16_StateNonceVerified ==
    \A r \in Reqs : reqs[r] = "sendCode" => reqState[r] = StateNonce

(* C17: with one caller at a time: a call that finds no token file after an  *)
(* earlier flow of the same process has ended runs a new flow: it does not   *)
(* crash when it registers its callback handler.                             *)
C17_ReinvocationRunsNewFlow ==
    \A p \in Procs :
        (atCall[p].f.kind = "absent" /\ mux.owner # "none" /\ pc[p] \in FlowPcs) => ~crashed

(* C18: the redirect URL of the authorization URL and of the exchange names  *)
(* the address the callback server binds and the path its handler is         *)
(* registered on.                                                            *)
C18_RedirectReachesHandler ==
    mux.owner # "none" => (redirect.addr = srv.addr /\ redirect.path = mux.path)

(* C19: when the call that ran the flow has returned, no callback handler    *)
(* and no server goroutine is blocked sending on the code or error channel   *)
(* of that flow (nothing receives from them any more).                       *)
C19_NoProducerLeftBlocked ==
    \A p \in Procs :
        (pc[p] = "idle" /\ mux.owner = p /\ started[p] > 0) =>
            /\ \A r \in Reqs : reqs[r] \notin {"sendCode", "sendErr"}
            /\ srv.state # "sendErr"

(* C20: when a code was received, the exchange is called with a context      *)
(* that has not expired, also when the shutdown used up its grace period.    *)
C20_ExchangeContextIsLive ==
    \A p \in Procs : (pc[p] = "exchange" /\ outcome[p] = "code") => ~ctxExpired[p]

====
